---- MODULE Spec2Model ----
(***************************************************************************)
(* A model of tsickle's TypeTranslator (src/src/type-translator.ts): the   *)
(* recursive translation of TypeScript types to Closure type strings, with *)
(* its cycle guard (seenTypes), its path blacklist, its alias table and    *)
(* its warn() callback.                                                    *)
(*                                                                         *)
(* Types and symbols are the objects of an external type checker.  They    *)
(* are modelled as a finite graph: a type or symbol is named by a string   *)
(* (its identity) and described by a record.  Bit-flag fields (type.flags, *)
(* objectFlags, symbol.flags) are sets of flag names; "a & b" is set       *)
(* intersection.  Output strings are TLA+ strings built with \o.           *)
(***************************************************************************)
EXTENDS Naturals, Sequences, FiniteSets, TLC

(* Bounds of the model. *)
\* Frames of translate() the call stack holds before the engine raises a
\* stack overflow (RangeError).
MaxDepth == 8
\* Calls of the public methods made on one TypeTranslator instance.
MaxCalls == 2

(* An optional value (T | undefined): <<>> is undefined, <<v>> is v. *)
None == <<>>
Some(v) == <<v>>
IsSome(o) == Len(o) = 1
Get(o) == o[1]

(***************************************************************************)
(* File names, as the tokens the lib.d.ts pattern distinguishes: "/", "."  *)
(* and the runs of other characters between them.                          *)
(***************************************************************************)
LibDTs == <<"/", "ts", "/", "lib", ".", "d", ".", "ts">>
LibEs6DTs == <<"/", "ts", "/", "lib", ".", "es6", ".", "d", ".", "ts">>
ATs == <<"/", "src", "/", "a", ".", "ts">>
BTs == <<"/", "src", "/", "b", ".", "ts">>
CTs == <<"/", "src", "/", "c", ".", "ts">>
MyLibDTs == <<"/", "src", "/", "mylib", ".", "d", ".", "ts">>

\* fileName.match(/\blib\.(?:[^/]+\.)?d\.ts$/) != null
isBuiltinLibDTS(fileName) ==
  LET n == Len(fileName)
      EndsDTs == n >= 3 /\ fileName[n-2] = "d" /\ fileName[n-1] = "." /\ fileName[n] = "ts"
  IN  EndsDTs /\
      \E i \in 1..n :
        /\ fileName[i] = "lib"
        /\ i + 1 <= n /\ fileName[i+1] = "."
        /\ \/ i + 2 = n - 2
           \/ /\ i + 2 < n - 3
              /\ fileName[n-3] = "."
              /\ \A k \in (i+2)..(n-4) : fileName[k] # "/"

(***************************************************************************)
(* ts.Symbol: name, flags, declarations (undefined, or the source file of  *)
(* each declaration), members (undefined, or the member table in key      *)
(* order, each member with the type the checker resolves it to) and the    *)
(* text fragments the symbol display builder writes for it.                *)
(***************************************************************************)
Sym(name, flags, declarations, members, display) ==
  [name |-> name, flags |-> flags, declarations |-> declarations,
   members |-> members, display |-> display]

Member(name, type) == [name |-> name, type |-> type]

\* The symbol of a type literal declared in file.
LitSym(file, members) == Sym("__type", {"TypeLiteral"}, Some(<<file>>), Some(members), <<"__type">>)

Symbols ==
     ("Foo" :> Sym("Foo", {"Class"}, Some(<<ATs>>), Some(<<>>), <<"Foo">>))
  @@ ("ns.Bar" :> Sym("Bar", {"Interface"}, Some(<<BTs>>), Some(<<>>), <<"ns", ".", "Bar">>))
  @@ ("Array" :> Sym("Array", {"Interface", "BlockScopedVariable"},
                     Some(<<LibDTs, LibEs6DTs>>), Some(<<>>), <<"Array">>))
  @@ ("Point" :> Sym("Point", {"Interface", "Function"}, Some(<<ATs, ATs>>), Some(<<>>), <<"Point">>))
  @@ ("MyLib" :> Sym("MyLib", {"Interface", "Function"}, Some(<<MyLibDTs>>), Some(<<>>), <<"MyLib">>))
  @@ ("Merged" :> Sym("Merged", {"Interface"}, Some(<<ATs, BTs>>), Some(<<>>), <<"Merged">>))
  @@ ("NoDecl" :> Sym("NoDecl", {"Class", "Transient"}, None, None, <<"NoDecl">>))
  @@ ("prop" :> Sym("prop", {"Property", "SyntheticProperty"}, Some(<<>>), None, <<"prop">>))
  @@ ("Self" :> Sym("Self", {"TypeAlias"}, Some(<<BTs>>), None, <<"Self">>))
  @@ ("f" :> Sym("f", {"Function"}, Some(<<CTs>>), None, <<"f">>))
  @@ ("g" :> Sym("g", {"Function"}, Some(<<CTs>>), None, <<"g">>))
  @@ ("over" :> Sym("over", {"Function"}, Some(<<CTs>>), None, <<"over">>))
  @@ ("fn+ns" :> Sym("fn", {"Function", "NamespaceModule"}, Some(<<CTs, CTs>>), None, <<"fn">>))
  @@ ("m" :> Sym("m", {"Method"}, Some(<<ATs>>), None, <<"m">>))
  @@ ("objlit" :> Sym("__object", {"ObjectLiteral"}, Some(<<CTs>>), Some(<<>>), <<"__object">>))
  @@ ("{a,b}" :> LitSym(CTs, <<Member("a", "number"), Member("b", "string|undefined")>>))
  @@ ("{}" :> LitSym(CTs, <<>>))
  @@ ("{flag,o}" :> LitSym(CTs, <<Member("flag", "boolean"), Member("o", "object")>>))
  @@ ("{[k:string]}" :> LitSym(CTs, <<Member("__index", "number")>>))
  @@ ("{[k:number]}" :> LitSym(CTs, <<Member("__index", "R")>>))
  @@ ("{[k:?]}" :> LitSym(CTs, <<Member("__index", "any")>>))
  @@ ("(x)=>" :> LitSym(CTs, <<Member("__call", "any")>>))
  @@ ("(t)=>" :> LitSym(CTs, <<Member("__call", "any")>>))
  @@ ("overloads" :> LitSym(CTs, <<Member("__call", "any")>>))
  @@ ("call+index" :> LitSym(CTs, <<Member("__call", "any"), Member("__index", "any")>>))
  @@ ("Tricky" :> LitSym(CTs, <<Member("__index", "number"), Member("foo", "number"),
                                Member("__call", "any"), Member("h", "(x)=>")>>))
  @@ ("{foo,(x)}" :> LitSym(CTs, <<Member("foo", "number"), Member("__call", "any")>>))
  @@ ("new" :> LitSym(CTs, <<Member("__new", "any"), Member("extra", "number")>>))
  @@ ("R" :> LitSym(BTs, <<Member("next", "R"), Member("val", "'a'|'b'")>>))
  @@ ("F" :> LitSym(ATs, <<Member("__call", "any")>>))

SymbolIds == DOMAIN Symbols

\* ts.SymbolFlags.Value: the flags of symbols that are values.
SymbolFlagsValue ==
  {"FunctionScopedVariable", "BlockScopedVariable", "Property", "EnumMember", "Function",
   "Class", "RegularEnum", "ConstEnum", "ValueModule", "Method", "GetAccessor", "SetAccessor"}

(***************************************************************************)
(* ts.Signature: the types the checker resolves the parameters to, in      *)
(* order, and the return type.                                             *)
(***************************************************************************)
Sig(parameters, returnType) == [parameters |-> parameters, returnType |-> returnType]

(***************************************************************************)
(* ts.Type: flags, and for the kinds that have them objectFlags, symbol,   *)
(* types (union constituents), target and typeArguments (references), and  *)
(* what the checker answers for the type: its call and construct           *)
(* signatures and its string and number index types.                       *)
(***************************************************************************)
BaseType ==
  [flags |-> {}, objectFlags |-> {}, symbol |-> None, types |-> <<>>,
   target |-> None, typeArguments |-> None,
   callSignatures |-> <<>>, constructSignatures |-> <<>>,
   stringIndexType |-> None, numberIndexType |-> None]

Kind(flags) == [BaseType EXCEPT !.flags = flags]
Union(flags, types) == [BaseType EXCEPT !.flags = flags, !.types = types]
Obj(objectFlags, symbol) ==
  [BaseType EXCEPT !.flags = {"Object"}, !.objectFlags = objectFlags, !.symbol = symbol]
Ref(objectFlags, symbol, target, typeArguments) ==
  [Obj(objectFlags, symbol) EXCEPT !.target = Some(target), !.typeArguments = typeArguments]
Callable(symbol, sigs) == [Obj({"Anonymous"}, Some(symbol)) EXCEPT !.callSignatures = sigs]
Indexable(symbol, str, num) ==
  [Obj({"Anonymous"}, Some(symbol)) EXCEPT !.stringIndexType = str, !.numberIndexType = num]

PrimitiveTypes ==
     ("any" :> Kind({"Any"}))
  @@ ("string" :> Kind({"String"}))
  @@ ("number" :> Kind({"Number"}))
  @@ ("boolean" :> Union({"Boolean", "Union"}, <<"true", "false">>))
  @@ ("true" :> Kind({"BooleanLiteral"}))
  @@ ("false" :> Kind({"BooleanLiteral"}))
  @@ ("'a'" :> Kind({"StringLiteral"}))
  @@ ("'b'" :> Kind({"StringLiteral", "FreshLiteral"}))
  @@ ("1" :> Kind({"NumberLiteral"}))
  @@ ("E" :> Union({"Enum", "Union"}, <<"E.A", "E.A">>))
  @@ ("E.A" :> Kind({"EnumLiteral"}))
  @@ ("E.B" :> Kind({"EnumLiteral", "NumberLiteral"}))
  @@ ("E2" :> Union({"Enum", "Union"}, <<"E.A", "E.B">>))
  @@ ("symbol" :> Kind({"ESSymbol"}))
  @@ ("void" :> Kind({"Void"}))
  @@ ("undefined" :> Kind({"Undefined", "ContainsWideningType"}))
  @@ ("null" :> Kind({"Null"}))
  @@ ("never" :> Kind({"Never"}))
  @@ ("T" :> Kind({"TypeParameter"}))
  @@ ("A&B" :> Union({"Intersection"}, <<"Foo", "ns.Bar">>))
  @@ ("keyof T" :> Kind({"Index"}))
  @@ ("T[K]" :> Kind({"IndexedAccess"}))
  @@ ("object" :> Kind({"NonPrimitive"}))

NominalTypes ==
     ("Foo" :> Obj({"Class"}, Some("Foo")))
  @@ ("class?" :> Obj({"Class"}, None))
  @@ ("NoDecl" :> Obj({"Class"}, Some("NoDecl")))
  @@ ("ns.Bar" :> Obj({"Interface"}, Some("ns.Bar")))
  @@ ("iface?" :> Obj({"Interface"}, None))
  @@ ("Array" :> Ref({"Interface", "Reference"}, Some("Array"), "Array", Some(<<"T">>)))
  @@ ("Point" :> Obj({"Interface"}, Some("Point")))
  @@ ("MyLib" :> Obj({"Interface"}, Some("MyLib")))
  @@ ("Merged" :> Obj({"Interface"}, Some("Merged")))

ReferenceTypes ==
     ("Array<R>" :> Ref({"Reference"}, Some("Array"), "Array", Some(<<"R">>)))
  @@ ("Ref<Foo,any>" :> Ref({"Reference"}, Some("ns.Bar"), "Foo", Some(<<"ns.Bar", "any">>)))
  @@ ("FooRef" :> Ref({"Reference"}, None, "Foo", None))
  @@ ("PointRef" :> Ref({"Reference"}, None, "Point", None))
  @@ ("Tuple" :> Ref({"Reference", "Tuple"}, None, "Tuple", None))
  @@ ("[number,R]" :> Ref({"Reference"}, None, "Tuple", Some(<<"number", "R">>)))
  @@ ("Self" :> Ref({"Reference"}, None, "Self", None))
  @@ ("SelfB" :> Ref({"Reference"}, Some("Self"), "SelfB", Some(<<"number">>)))

AnonymousTypes ==
     ("anon?" :> [Obj({"Anonymous"}, None) EXCEPT !.callSignatures = <<Sig(<<"T">>, "T")>>])
  @@ ("{a,b}" :> Obj({"Anonymous"}, Some("{a,b}")))
  @@ ("{}" :> Obj({"Anonymous"}, Some("{}")))
  @@ ("{flag,o}" :> Obj({"Anonymous"}, Some("{flag,o}")))
  @@ ("{[k:string]}" :> Indexable("{[k:string]}", Some("string|undefined"), Some("string")))
  @@ ("{[k:number]}" :> Indexable("{[k:number]}", None, Some("R")))
  @@ ("{[k:?]}" :> Indexable("{[k:?]}", None, None))
  @@ ("(x)=>" :> Callable("(x)=>", <<Sig(<<"number">>, "string")>>))
  @@ ("(t)=>" :> Callable("(t)=>", <<Sig(<<"T">>, "{[k:?]}")>>))
  @@ ("overloads" :> Callable("overloads", <<Sig(<<"number">>, "string"), Sig(<<>>, "void")>>))
  @@ ("call+index" :> [Callable("call+index", <<Sig(<<>>, "void")>>)
                         EXCEPT !.stringIndexType = Some("number")])
  @@ ("Tricky" :> [Callable("Tricky", <<Sig(<<"number">>, "number")>>)
                     EXCEPT !.numberIndexType = Some("number")])
  @@ ("{foo,(x)}" :> Callable("{foo,(x)}", <<Sig(<<"number">>, "number")>>))
  @@ ("new" :> [Obj({"Anonymous"}, Some("new"))
                  EXCEPT !.constructSignatures = <<Sig(<<"string", "{}">>, "Foo"), Sig(<<>>, "Foo")>>])
  @@ ("new()" :> [Obj({"Anonymous"}, Some("new"))
                    EXCEPT !.constructSignatures = <<Sig(<<>>, "ns.Bar")>>])
  @@ ("R" :> Obj({"Anonymous"}, Some("R")))
  @@ ("F" :> Callable("F", <<Sig(<<"F">>, "F")>>))
  @@ ("f" :> Callable("f", <<Sig(<<"(x)=>", "{a,b}">>, "number")>>))
  @@ ("g" :> Callable("g", <<Sig(<<>>, "g")>>))
  @@ ("over" :> Callable("over", <<Sig(<<"number">>, "string"), Sig(<<"string">>, "string")>>))
  @@ ("fn+ns" :> Callable("fn+ns", <<Sig(<<"number">>, "string")>>))
  @@ ("m" :> Callable("m", <<Sig(<<>>, "void")>>))
  @@ ("objlit" :> Obj({"Anonymous", "ObjectLiteral"}, Some("objlit")))
  @@ ("mapped" :> Obj({"Mapped"}, None))

UnionTypes ==
     ("string|undefined" :> Union({"Union"}, <<"string", "undefined">>))
  @@ ("'a'|'b'" :> Union({"Union"}, <<"'a'", "'b'">>))
  @@ ("'a'|number|'b'|1|null" :> Union({"Union"}, <<"'a'", "number", "'b'", "1", "null">>))
  @@ ("R|any|{}" :> Union({"Union"}, <<"R", "any", "{}">>))

\* The type graph the checker hands to the translator.
Types == PrimitiveTypes @@ NominalTypes @@ ReferenceTypes @@ AnonymousTypes @@ UnionTypes

TypeIds == DOMAIN Types

\* ts.TypeFlags up to lastFlag = IndexedAccess: the flags of the public API.
PublicTypeFlags ==
  {"Any", "String", "Number", "Boolean", "Enum", "StringLiteral", "NumberLiteral",
   "BooleanLiteral", "EnumLiteral", "ESSymbol", "Void", "Undefined", "Null", "Never",
   "TypeParameter", "Object", "Union", "Intersection", "Index", "IndexedAccess"}

(***************************************************************************)
(* The state of one TypeTranslator instance.                               *)
(***************************************************************************)
VARIABLES
  pathBlackList,          \* constructor argument: undefined, or a set of file names
  symbolsToAliasedNames,  \* constructor argument: a map from symbols to names
  seenTypes,              \* the type literals translateTypeLiteral has visited
  ncalls,                 \* public method calls made so far
  op,                     \* the last public method called
  arg,                    \* its argument (a type or a symbol)
  result,                 \* what it returned ("" when it threw)
  thrown,                 \* the error it threw ("" when it returned)
  warned,                 \* the messages it passed to warn(), in order
  steps                   \* the translate() calls it made, in order of completion

vars == <<pathBlackList, symbolsToAliasedNames, seenTypes, ncalls, op, arg, result,
          thrown, warned, steps>>

(***************************************************************************)
(* What a method threads through its execution: seenTypes, the messages    *)
(* warned, the record of translate() calls, and the pending exception.     *)
(***************************************************************************)
Run(seen) == [seen |-> seen, warned |-> <<>>, steps |-> <<>>, err |-> ""]

\* return str
Return(str, s) == [str |-> str, s |-> s]
\* throw new Error(msg)
Throw(msg, s) == [str |-> "", s |-> [s EXCEPT !.err = msg]]
\* this.warn(msg)
warn(msg, s) == [s EXCEPT !.warned = Append(@, msg)]

RECURSIVE Join(_, _)
\* parts.join(sep)
Join(parts, sep) ==
  IF parts = <<>> THEN ""
  ELSE IF Len(parts) = 1 THEN parts[1]
  ELSE parts[1] \o sep \o Join(Tail(parts), sep)

\* parts.indexOf(el), 1-based; 0 when absent
indexOf(parts, el) ==
  IF \E i \in 1..Len(parts) : parts[i] = el
  THEN CHOOSE i \in 1..Len(parts) : parts[i] = el /\ \A j \in 1..(i-1) : parts[j] # el
  ELSE 0

RECURSIVE FilterFrom(_, _)
FilterFrom(parts, idx) ==
  IF idx > Len(parts) THEN <<>>
  ELSE (IF indexOf(parts, parts[idx]) = idx THEN <<parts[idx]>> ELSE <<>>)
       \o FilterFrom(parts, idx + 1)

\* A filter that compares each part with its predecessor only.
RemoveAdjacentDuplicates(parts) ==
  IF parts = <<>> THEN <<>>
  ELSE <<parts[1]>> \o
       [i \in 1..Len(SelectSeq([j \in 1..(Len(parts) - 1) |-> j + 1],
                               LAMBDA j : parts[j] # parts[j-1])) |->
          parts[SelectSeq([j \in 1..(Len(parts) - 1) |-> j + 1],
                          LAMBDA j : parts[j] # parts[j-1])[i]]]

\* parts.filter((el, idx) => parts.indexOf(el) === idx)
RemoveDuplicates(parts) == FilterFrom(parts, 1)

\* symbol.declarations.some(n => isBuiltinLibDTS(n.getSourceFile().fileName))
isClosureProvidedType(symbol) ==
  LET decls == Symbols[symbol].declarations
  IN  IsSome(decls) /\ \E i \in 1..Len(Get(decls)) : isBuiltinLibDTS(Get(decls)[i])

\* The alias lookup of symbolToString: an alias that is a non-empty string wins.
HasAlias(sym) == sym \in DOMAIN symbolsToAliasedNames /\ symbolsToAliasedNames[sym] # ""

\* A symbolToString that never consults the alias table.
symbolToStringUnaliased(sym) == Join(Symbols[sym].display, "")

\* Otherwise the display builder's fragments, concatenated by writeText.
symbolToString(sym) ==
  IF HasAlias(sym) THEN symbolsToAliasedNames[sym]
  ELSE Join(Symbols[sym].display, "")

\* An isBlackListed that looks at the declarations before the blacklist.
isBlackListedDeclarationsFirst(symbol, s) ==
  LET decls == Symbols[symbol].declarations
  IN  IF ~IsSome(decls)
      THEN [val |-> TRUE, s |-> warn("symbol has no declarations", s)]
      ELSE IF ~IsSome(pathBlackList) THEN [val |-> FALSE, s |-> s]
      ELSE [val |-> \A i \in 1..Len(Get(decls)) : Get(decls)[i] \in Get(pathBlackList),
            s |-> s]

\* isBlackListed(symbol): the answer, and the run with its warning.
isBlackListed(symbol, s) ==
  IF ~IsSome(pathBlackList) THEN [val |-> FALSE, s |-> s]
  ELSE LET decls == Symbols[symbol].declarations
       IN  IF ~IsSome(decls)
           THEN [val |-> TRUE, s |-> warn("symbol has no declarations", s)]
           ELSE [val |-> \A i \in 1..Len(Get(decls)) : Get(decls)[i] \in Get(pathBlackList),
                 s |-> s]

(***************************************************************************)
(* The translator.  Every operator takes the run so far and the depth of   *)
(* the translate() frame it would push, and yields [str, s]: the string    *)
(* returned and the run after it.  Once s.err is set an exception is in    *)
(* flight: callers return at once, which is how it unwinds the stack.      *)
(***************************************************************************)
RECURSIVE translate(_, _, _)
RECURSIVE translateAll(_, _, _)
RECURSIVE translateObject(_, _, _)
RECURSIVE translateTypeLiteral(_, _, _)
RECURSIVE translateMembers(_, _, _)
RECURSIVE signatureToClosure(_, _, _)

Failed(r) == r.s.err # ""

\* The array map() builds: the translation of the head before those of the rest.
Cons(str, rest) == [strs |-> <<str>> \o rest.strs, s |-> rest.s]

MapRest(head, rest, d) ==
  IF Failed(head) THEN [strs |-> <<>>, s |-> head.s]
  ELSE Cons(head.str, translateAll(rest, head.s, d))

\* types.map(t => this.translate(t)): [strs, s]
translateAll(types, s, d) ==
  IF types = <<>> THEN [strs |-> <<>>, s |-> s]
  ELSE MapRest(translate(Head(types), s, d), Tail(types), d)

\* sig.parameters.map(param => this.translate(getTypeOfSymbolAtLocation(param, node)))
convertParams(sig, s, d) == translateAll(sig.parameters, s, d)

\* The result of translateUnion from the translated constituents.
UnionString(parts) ==
  LET kept == RemoveDuplicates(parts)
  IN  IF Len(kept) = 1 THEN kept[1] ELSE "(" \o Join(kept, "|") \o ")"

UnionOf(parts) ==
  IF Failed(parts) THEN Return("", parts.s)
  ELSE Return(UnionString(parts.strs), parts.s)

translateUnion(type, s, d) == UnionOf(translateAll(Types[type].types, s, d + 1))

\* A switch on type.flags as they are, the internal flags included.
DispatchUnmasked(type, s, d) ==
  LET flags == Types[type].flags
      masked == flags
  IN  CASE masked = {"Any"} -> Return("?", s)
        [] masked \in {{"String"}, {"StringLiteral"}} -> Return("string", s)
        [] masked \in {{"Number"}, {"NumberLiteral"}} -> Return("number", s)
        [] masked \in {{"Boolean"}, {"BooleanLiteral"}} -> Return("boolean", s)
        [] masked \in {{"Enum"}, {"EnumLiteral"}} -> Return("number", s)
        [] masked = {"ESSymbol"} -> Return("symbol", s)
        [] masked = {"Void"} -> Return("void", s)
        [] masked = {"Undefined"} -> Return("undefined", s)
        [] masked = {"Null"} -> Return("null", s)
        [] masked = {"Never"} -> Return("?", warn("should not emit a 'never' type", s))
        [] masked = {"TypeParameter"} -> Return("?", warn("unhandled type flags", s))
        [] masked = {"Object"} -> translateObject(type, s, d)
        [] masked \in {{"Intersection"}, {"Index"}, {"IndexedAccess"}} ->
             Return("?", warn("unhandled type flags", s))
        [] OTHER ->
             IF "Union" \in flags THEN translateUnion(type, s, d)
             ELSE Throw("unknown type flags", s)

\* The switch of translate() on type.flags & mask.
Dispatch(type, s, d) ==
  LET flags == Types[type].flags
      masked == flags \cap PublicTypeFlags
  IN  CASE masked = {"Any"} -> Return("?", s)
        [] masked \in {{"String"}, {"StringLiteral"}} -> Return("string", s)
        [] masked \in {{"Number"}, {"NumberLiteral"}} -> Return("number", s)
        [] masked \in {{"Boolean"}, {"BooleanLiteral"}} -> Return("boolean", s)
        [] masked \in {{"Enum"}, {"EnumLiteral"}} -> Return("number", s)
        [] masked = {"ESSymbol"} -> Return("symbol", s)
        [] masked = {"Void"} -> Return("void", s)
        [] masked = {"Undefined"} -> Return("undefined", s)
        [] masked = {"Null"} -> Return("null", s)
        [] masked = {"Never"} -> Return("?", warn("should not emit a 'never' type", s))
        [] masked = {"TypeParameter"} -> Return("?", warn("unhandled type flags", s))
        [] masked = {"Object"} -> translateObject(type, s, d)
        [] masked \in {{"Intersection"}, {"Index"}, {"IndexedAccess"}} ->
             Return("?", warn("unhandled type flags", s))
        [] OTHER ->
             IF "Union" \in flags THEN translateUnion(type, s, d)
             ELSE Throw("unknown type flags", s)

\* One translate() call as the call trace records it.
Step(type, d, before, r) ==
  [type |-> type, depth |-> d, str |-> r.str, err |-> r.s.err,
   inner |-> Len(r.s.steps) - Len(before.steps),
   seenBefore |-> before.seen, seenAfter |-> r.s.seen,
   warnedBefore |-> Len(before.warned), warnedAfter |-> Len(r.s.warned)]

Traced(type, d, before, r) ==
  [str |-> r.str, s |-> [r.s EXCEPT !.steps = Append(@, Step(type, d, before, r))]]

\* translate(type): a frame beyond the stack's capacity overflows it.
translate(type, s, d) ==
  Traced(type, d, s, IF d > MaxDepth THEN Throw("stack overflow", s) ELSE Dispatch(type, s, d))

\* typeStr += `<${params.join(', ')}>`
WithParams(typeStr, params) ==
  IF Failed(params) THEN Return("", params.s)
  ELSE Return(typeStr \o "<" \o Join(params.strs, ", ") \o ">", params.s)

WithTypeArguments(t, typeArguments, d) ==
  IF Failed(t) THEN t
  ELSE IF IsSome(typeArguments) THEN WithParams(t.str, translateAll(Get(typeArguments), t.s, d + 1))
  ELSE t

\* A Reference branch without the test for a target that is the reference itself.
translateReferenceUnchecked(type, s, d) ==
  LET referenceType == Types[type]
      target == Get(referenceType.target)
  IN  IF "Tuple" \in Types[target].objectFlags THEN Return("!Array<?>", s)
      ELSE WithTypeArguments(translate(target, s, d + 1), referenceType.typeArguments, d)

\* The Reference branch of translateObject.
translateReference(type, s, d) ==
  LET referenceType == Types[type]
      target == Get(referenceType.target)
  IN  IF "Tuple" \in Types[target].objectFlags THEN Return("!Array<?>", s)
      ELSE IF target = type THEN Throw("reference loop", s)
      ELSE WithTypeArguments(translate(target, s, d + 1), referenceType.typeArguments, d)

\* Which branch of translateObject a type that is not blacklisted takes.
ObjectBranch(type) ==
  LET objectFlags == Types[type].objectFlags
  IN  IF "Class" \in objectFlags THEN "Class"
      ELSE IF "Interface" \in objectFlags THEN "Interface"
      ELSE IF "Reference" \in objectFlags THEN "Reference"
      ELSE IF "Anonymous" \in objectFlags THEN "Anonymous"
      ELSE "unhandled"

\* translateObject after the blacklist test: the branches on objectFlags.
translateByObjectFlags(type, s, d) ==
  LET t == Types[type]
      hasSymbol == IsSome(t.symbol)
      symbol == Get(t.symbol)
      branch == ObjectBranch(type)
  IN  IF branch = "Class" THEN
        IF ~hasSymbol THEN Return("?", warn("class has no symbol", s))
        ELSE Return("!" \o symbolToString(symbol), s)
      ELSE IF branch = "Interface" THEN
        IF ~hasSymbol THEN Return("?", warn("interface has no symbol", s))
        ELSE IF Symbols[symbol].flags \cap SymbolFlagsValue # {} /\ ~isClosureProvidedType(symbol)
        THEN Return("?", warn("type/symbol conflict", s))
        ELSE Return("!" \o symbolToString(symbol), s)
      ELSE IF branch = "Reference" THEN translateReference(type, s, d)
      ELSE IF branch = "Anonymous" THEN
        IF ~hasSymbol THEN Return("?", warn("anonymous type has no symbol", s))
        ELSE IF Symbols[symbol].flags = {"TypeLiteral"} THEN translateTypeLiteral(type, s, d)
        ELSE IF Symbols[symbol].flags \in {{"Function"}, {"Method"}}
                /\ Len(t.callSignatures) = 1
        THEN signatureToClosure(t.callSignatures[1], s, d)
        ELSE Return("?", warn("unhandled anonymous type", s))
      ELSE Return("?", warn("unhandled type", s))

\* A translateObject that tests the blacklist for classes and interfaces only.
translateObjectNominalBlackList(type, s, d) ==
  LET t == Types[type]
      bl == IF IsSome(t.symbol) /\ ObjectBranch(type) \in {"Class", "Interface"}
            THEN isBlackListed(Get(t.symbol), s) ELSE [val |-> FALSE, s |-> s]
  IN  IF bl.val THEN Return("?", bl.s)
      ELSE translateByObjectFlags(type, s, d)

translateObject(type, s, d) ==
  LET t == Types[type]
      bl == IF IsSome(t.symbol) THEN isBlackListed(Get(t.symbol), s)
            ELSE [val |-> FALSE, s |-> s]
  IN  IF bl.val THEN Return("?", bl.s)
      ELSE translateByObjectFlags(type, s, d)

\* What the member loop gathers: [fields, callable, indexable, s].
Gathered(s) == [fields |-> <<>>, callable |-> FALSE, indexable |-> FALSE, s |-> s]

\* case '__call': callable = true;  case '__index': indexable = true
Flagged(field, rest) ==
  [rest EXCEPT !.callable = @ \/ field = "__call", !.indexable = @ \/ field = "__index"]

\* A push that leaves the fields in the reverse of the member order.
PushedReversed(field, rest) == [rest EXCEPT !.fields = Append(@, field)]

\* fields.push(`${field}: ${memberType}`)
Pushed(field, rest) == [rest EXCEPT !.fields = <<field>> \o @]

NextMembers(field, memberType, rest, d) ==
  IF Failed(memberType) THEN Gathered(memberType.s)
  ELSE Pushed(field \o ": " \o memberType.str, translateMembers(rest, memberType.s, d))

\* The loop of translateTypeLiteral over Object.keys(type.symbol.members).
translateMembers(members, s, d) ==
  IF members = <<>> THEN Gathered(s)
  ELSE IF Head(members).name \in {"__call", "__index"}
  THEN Flagged(Head(members).name, translateMembers(Tail(members), s, d))
  ELSE NextMembers(Head(members).name, translate(Head(members).type, s, d + 1),
                   Tail(members), d)

\* A guard that looks at the most recently visited type literal only.
AlreadySeenLast(type, seen) == seen # <<>> /\ seen[Len(seen)] = type

\* this.seenTypes.indexOf(type) !== -1
AlreadySeen(type, seen) == \E i \in 1..Len(seen) : seen[i] = type

\* return `!Object<${keyType},${this.translate(valType)}>`
MapOf(keyType, valType) ==
  IF Failed(valType) THEN valType
  ELSE Return("!Object<" \o keyType \o "," \o valType.str \o ">", valType.s)

\* A key-value map that tries the number index type before the string one.
translateIndexableNumberFirst(type, s, d) ==
  LET t == Types[type]
      keyType == IF IsSome(t.numberIndexType) THEN "number" ELSE "string"
      valType == IF IsSome(t.numberIndexType) THEN t.numberIndexType ELSE t.stringIndexType
  IN  IF ~IsSome(valType) THEN Return("!Object<?,?>", warn("unknown index key type", s))
      ELSE MapOf(keyType, translate(Get(valType), s, d + 1))

\* A key-value map that falls back to the doubly-unknown map without a warning.
translateIndexableSilent(type, s, d) ==
  LET t == Types[type]
      keyType == IF IsSome(t.stringIndexType) THEN "string" ELSE "number"
      valType == IF IsSome(t.stringIndexType) THEN t.stringIndexType ELSE t.numberIndexType
  IN  IF ~IsSome(valType) THEN Return("!Object<?,?>", s)
      ELSE MapOf(keyType, translate(Get(valType), s, d + 1))

\* The key-value map a type literal with only an index signature becomes.
translateIndexable(type, s, d) ==
  LET t == Types[type]
      keyType == IF IsSome(t.stringIndexType) THEN "string" ELSE "number"
      valType == IF IsSome(t.stringIndexType) THEN t.stringIndexType ELSE t.numberIndexType
  IN  IF ~IsSome(valType) THEN Return("!Object<?,?>", warn("unknown index key type", s))
      ELSE MapOf(keyType, translate(Get(valType), s, d + 1))

\* return `function(new: (${constructedType})${paramsStr}): ?`
ConstructorOf(params, constructedType) ==
  LET paramsStr == IF Len(params) # 0 THEN ", " \o Join(params, ", ") ELSE ""
  IN  IF Failed(constructedType) THEN constructedType
      ELSE Return("function(new: (" \o constructedType.str \o ")" \o paramsStr \o "): ?",
                  constructedType.s)

ConstructedBy(params, returnType, d) ==
  IF Failed(params) THEN Return("", params.s)
  ELSE ConstructorOf(params.strs, translate(returnType, params.s, d + 1))

\* The constructor function a type literal with construct signatures becomes.
translateConstructor(ctor, s, d) ==
  ConstructedBy(convertParams(ctor, s, d + 1), ctor.returnType, d)

\* translateTypeLiteral once the members are gathered.
LiteralOf(type, m, d) ==
  LET sigs == Types[type].callSignatures
  IN  IF Failed(m) THEN Return("", m.s)
      ELSE IF Len(m.fields) = 0 /\ m.callable /\ ~m.indexable /\ Len(sigs) = 1
      THEN signatureToClosure(sigs[1], m.s, d)
      ELSE IF Len(m.fields) = 0 /\ m.indexable /\ ~m.callable
      THEN translateIndexable(type, m.s, d)
      ELSE IF Len(m.fields) = 0 /\ ~m.callable /\ ~m.indexable
      THEN Return("!Object", m.s)
      ELSE IF ~m.callable /\ ~m.indexable
      THEN Return("{" \o Join(m.fields, ", ") \o "}", m.s)
      ELSE Return("?", warn("unhandled type literal", m.s))

translateTypeLiteral(type, s, d) ==
  LET t == Types[type]
      pushed == [s EXCEPT !.seen = Append(@, type)]
      members == Symbols[Get(t.symbol)].members
      ctors == t.constructSignatures
  IN  IF AlreadySeen(type, s.seen) THEN Return("?", s)
      ELSE IF ~IsSome(t.symbol) \/ ~IsSome(members)
      THEN Return("?", warn("type literal has no symbol", pushed))
      ELSE IF Len(ctors) # 0 THEN translateConstructor(ctors[1], pushed, d)
      ELSE LiteralOf(type, translateMembers(Get(members), pushed, d), d)

\* A closure type with the test of the return type inverted.
ClosureOfInverted(typeStr, retType) ==
  IF Failed(retType) THEN retType
  ELSE Return(IF retType.str = "" THEN typeStr \o ": " \o retType.str ELSE typeStr, retType.s)

\* typeStr += `: ${retType}` when retType is not empty
ClosureOf(typeStr, retType) ==
  IF Failed(retType) THEN retType
  ELSE Return(IF retType.str # "" THEN typeStr \o ": " \o retType.str ELSE typeStr, retType.s)

ClosureFrom(params, returnType, d) ==
  IF Failed(params) THEN Return("", params.s)
  ELSE ClosureOf("function(" \o Join(params.strs, ", ") \o ")",
                 translate(returnType, params.s, d + 1))

signatureToClosure(sig, s, d) ==
  ClosureFrom(convertParams(sig, s, d + 1), sig.returnType, d)

(***************************************************************************)
(* The instance: its construction and the calls of its public methods.     *)
(***************************************************************************)
\* The pathBlackList arguments the instance is constructed with.
BlackLists == {None, Some({BTs}), Some({ATs, BTs})}

\* The symbolsToAliasedNames arguments: the default empty map, and a map of imports.
AliasTables ==
  { <<>>,
    ("Foo" :> "tsickle_import.Foo") @@ ("ns.Bar" :> "alias.Bar") @@ ("Point" :> "alias.Point")
      @@ ("Merged" :> "") }

\* new TypeTranslator(typeChecker, node, pathBlackList, symbolsToAliasedNames)
Init ==
  /\ pathBlackList \in BlackLists
  /\ symbolsToAliasedNames \in AliasTables
  /\ seenTypes = <<>>
  /\ ncalls = 0
  /\ op = "new"
  /\ arg = ""
  /\ result = ""
  /\ thrown = ""
  /\ warned = <<>>
  /\ steps = <<>>

\* A public method was called: what the caller observes of it.
Called(method, argument, str, s) ==
  /\ ncalls < MaxCalls
  /\ ncalls' = ncalls + 1
  /\ op' = method
  /\ arg' = argument
  /\ result' = str
  /\ thrown' = s.err
  /\ warned' = s.warned
  /\ steps' = s.steps
  /\ seenTypes' = s.seen
  /\ UNCHANGED <<pathBlackList, symbolsToAliasedNames>>

Translated(type, r) == Called("translate", type, r.str, r.s)

\* translator.translate(type)
Translate(type) == Translated(type, translate(type, Run(seenTypes), 1))

BlackListed(symbol, r) == Called("isBlackListed", symbol, IF r.val THEN "true" ELSE "false", r.s)

\* translator.isBlackListed(symbol)
IsBlackListed(symbol) == BlackListed(symbol, isBlackListed(symbol, Run(seenTypes)))

\* translator.symbolToString(sym)
SymbolToString(sym) == Called("symbolToString", sym, symbolToString(sym), Run(seenTypes))

Next ==
  \/ \E type \in TypeIds : Translate(type)
  \/ \E symbol \in SymbolIds : IsBlackListed(symbol)
  \/ \E sym \in SymbolIds : SymbolToString(sym)

Spec == Init /\ [][Next]_vars

(***************************************************************************)
(* Reading the call trace.  steps holds the translate() calls of the last  *)
(* method call in order of completion, so the calls made inside step k are *)
(* the steps[k].inner entries before it, and those one frame deeper are    *)
(* the calls its own code made, in order.                                  *)
(***************************************************************************)
StepIds == 1..Len(steps)

SubCalls(k) ==
  SelectSeq(SubSeq(steps, k - steps[k].inner, k - 1),
            LAMBDA c : c.depth = steps[k].depth + 1)

StrsOf(calls) == [i \in 1..Len(calls) |-> calls[i].str]
TypesOf(calls) == [i \in 1..Len(calls) |-> calls[i].type]
Range(seq) == {seq[i] : i \in 1..Len(seq)}

Returned(c) == c.err = ""

\* A frame fails only by the failure of the last call it made, or because the
\* stack had no room for the frame itself.
FailsOnlyBySubCall(k) ==
  ~Returned(steps[k]) =>
     \/ steps[k].depth > MaxDepth /\ steps[k].err = "stack overflow"
     \/ /\ SubCalls(k) # <<>>
        /\ steps[k].err = SubCalls(k)[Len(SubCalls(k))].err

RECURSIVE FirstOccurrences(_)
\* The strings of strs without those that occurred earlier.
FirstOccurrences(strs) ==
  IF strs = <<>> THEN <<>>
  ELSE LET front == FirstOccurrences(SubSeq(strs, 1, Len(strs) - 1))
           last == strs[Len(strs)]
       IN  IF last \in Range(front) THEN front ELSE Append(front, last)

RECURSIVE Separated(_, _)
\* The strings of strs with sep between them.
Separated(strs, sep) ==
  IF strs = <<>> THEN ""
  ELSE LET front == SubSeq(strs, 1, Len(strs) - 1)
       IN  IF front = <<>> THEN strs[1]
           ELSE Separated(front, sep) \o sep \o strs[Len(strs)]

\* The types translate() hands to translateUnion.
IsUnion(type) == "Union" \in Types[type].flags

(***************************************************************************)
(* C1: a union translates to the translations of its constituents, in      *)
(* order, without the strings that occurred earlier: bare when one string  *)
(* remains, otherwise joined by "|" in parentheses.  (When a constituent   *)
(* throws, the union throws that error.)                                   *)
(***************************************************************************)
C1_UnionDedup ==
  \A k \in StepIds :
    IsUnion(steps[k].type) =>
      LET parts == StrsOf(SubCalls(k))
          kept == FirstOccurrences(parts)
      IN  /\ FailsOnlyBySubCall(k)
          /\ Returned(steps[k]) =>
               /\ TypesOf(SubCalls(k)) = Types[steps[k].type].types
               /\ steps[k].str = IF Len(kept) = 1 THEN kept[1]
                                 ELSE "(" \o Separated(kept, "|") \o ")"

\* A union with a repeated string that is not adjacent to its first occurrence,
\* and more than one string left.
C1_Witness ==
  \E k \in StepIds :
    /\ IsUnion(steps[k].type) /\ Returned(steps[k])
    /\ LET parts == StrsOf(SubCalls(k))
       IN  /\ Len(FirstOccurrences(parts)) > 1
           /\ \E i, j \in 1..Len(parts) : j > i + 1 /\ parts[i] = parts[j]

(***************************************************************************)
(* C2: a type literal that translateTypeLiteral has visited is never       *)
(* expanded again on the same instance.  In every call, every translate()  *)
(* frame starts from a guard set that holds all type literals visited by   *)
(* earlier calls and earlier frames; a frame for a type in that set        *)
(* returns "?" and calls translate() for no member; and the set only       *)
(* grows.                                                                  *)
(***************************************************************************)
C2_NeverExpandedAgain ==
  [][\A k \in 1..Len(steps') :
       LET c == steps'[k]
       IN  /\ Range(seenTypes) \subseteq Range(c.seenBefore)
           /\ Range(c.seenBefore) \subseteq Range(c.seenAfter)
           /\ Range(c.seenAfter) \subseteq Range(seenTypes')
           /\ c.type \in Range(c.seenBefore) =>
                /\ Returned(c) /\ c.str = "?"
                /\ c.inner = 0
                /\ c.seenAfter = c.seenBefore]_vars

\* A later, unrelated call meets, in a nested frame, a type literal that an
\* earlier call visited.
C2_Witness ==
  /\ ncalls = 2 /\ op = "translate"
  /\ \E k \in StepIds :
       /\ steps[k].depth > 1
       /\ steps[k].type \in Range(steps[Len(steps)].seenBefore)
       /\ steps[k].type # arg
       /\ steps[k].str = "?"

(***************************************************************************)
(* What the claims say of the types, read from the type graph.             *)
(***************************************************************************)
IsObject(type) == Types[type].flags \cap PublicTypeFlags = {"Object"}

\* A blacklist is configured and every declaration of the symbol is in it
\* (a symbol without declarations included).
Suppressed(symbol) ==
  /\ pathBlackList # None
  /\ \A file \in Range(IF Symbols[symbol].declarations = None THEN <<>>
                       ELSE Symbols[symbol].declarations[1]) :
       file \in pathBlackList[1]

HasSuppressedSymbol(type) ==
  Types[type].symbol # None /\ Suppressed(Types[type].symbol[1])

\* A Reference whose target is the reference itself.
IsSelfReference(type) ==
  /\ IsObject(type)
  /\ "Reference" \in Types[type].objectFlags
  /\ Types[type].target = <<type>>

(***************************************************************************)
(* C3 as stated: translating a Reference whose target is the reference     *)
(* itself always raises the fatal error.                                   *)
(***************************************************************************)
C3_SelfReferenceAlwaysThrows ==
  \A k \in StepIds :
    IsSelfReference(steps[k].type) => steps[k].err = "reference loop"

(***************************************************************************)
(* C3, amended: translating a Reference whose target is the reference      *)
(* itself raises the fatal error, without translating anything, when the   *)
(* type is not also a Class, an Interface or a Tuple and its symbol is not *)
(* blacklisted; a type that is returns a string as its other kind does.    *)
(***************************************************************************)
C3_SelfReferenceThrows ==
  \A k \in StepIds :
    IsSelfReference(steps[k].type) =>
      IF \/ Types[steps[k].type].objectFlags \cap {"Class", "Interface", "Tuple"} # {}
         \/ HasSuppressedSymbol(steps[k].type)
      THEN Returned(steps[k]) /\ steps[k].str # "" /\ steps[k].inner = 0
      ELSE steps[k].err = "reference loop" /\ steps[k].str = "" /\ steps[k].inner = 0

\* A self-referential Reference with a symbol that is not blacklisted was
\* translated, and the call threw.
C3_Witness ==
  \E k \in StepIds :
    /\ IsSelfReference(steps[k].type)
    /\ Types[steps[k].type].symbol # None
    /\ steps[k].err = "reference loop"
    /\ thrown = "reference loop"

(***************************************************************************)
(* C4: an Object type of any sub-kind whose symbol is blacklisted          *)
(* translates to "?" with no further traversal: no translate() call is     *)
(* made for a member, target, type argument or signature, and the          *)
(* cycle-guard set is left as it was.                                      *)
(***************************************************************************)
C4_BlackListedIsUnknown ==
  \A k \in StepIds :
    (IsObject(steps[k].type) /\ HasSuppressedSymbol(steps[k].type)) =>
      /\ Returned(steps[k]) /\ steps[k].str = "?"
      /\ steps[k].inner = 0
      /\ steps[k].seenAfter = steps[k].seenBefore

\* A blacklisted type literal with a member to translate was met inside
\* another type.
C4_Witness ==
  \E k \in StepIds :
    /\ IsObject(steps[k].type) /\ HasSuppressedSymbol(steps[k].type)
    /\ steps[k].depth > 1
    /\ Symbols[Types[steps[k].type].symbol[1]].flags = {"TypeLiteral"}
    /\ \E i \in 1..Len(Symbols[Types[steps[k].type].symbol[1]].members[1]) :
         Symbols[Types[steps[k].type].symbol[1]].members[1][i].name \notin {"__call", "__index"}
    /\ steps[k].str = "?"

\* A class or interface type whose symbol is registered in the alias table.
IsAliasedNominal(type) ==
  /\ IsObject(type)
  /\ Types[type].objectFlags \cap {"Class", "Interface"} # {}
  /\ Types[type].symbol # None
  /\ Types[type].symbol[1] \in DOMAIN symbolsToAliasedNames

AliasOf(type) == symbolsToAliasedNames[Types[type].symbol[1]]

\* An interface whose symbol is also a value and is declared in no builtin lib.d.ts.
IsTypeValueConflict(type) ==
  /\ "Class" \notin Types[type].objectFlags
  /\ Symbols[Types[type].symbol[1]].flags \cap SymbolFlagsValue # {}
  /\ \A file \in Range(IF Symbols[Types[type].symbol[1]].declarations = None THEN <<>>
                       ELSE Symbols[Types[type].symbol[1]].declarations[1]) :
       ~isBuiltinLibDTS(file)

(***************************************************************************)
(* C5 as stated: a nominal type whose symbol has an alias always           *)
(* translates to the alias (here: as the alias or the non-null "!alias"),  *)
(* even when the symbol is blacklisted or the kind logic would degrade.    *)
(***************************************************************************)
C5_AliasAlwaysWins ==
  \A k \in StepIds :
    IsAliasedNominal(steps[k].type) =>
      steps[k].str \in {AliasOf(steps[k].type), "!" \o AliasOf(steps[k].type)}

(***************************************************************************)
(* C5, amended: symbolToString returns the alias of every symbol           *)
(* registered with a non-empty alias, blacklisted or not.  translate of a  *)
(* class or interface type with such a symbol yields "!" and the alias,    *)
(* except that it yields "?" when the symbol is blacklisted or when the    *)
(* type is an interface whose symbol is also a value and is not declared   *)
(* in a builtin lib.d.ts.                                                  *)
(***************************************************************************)
C5_AliasUnlessSuppressed ==
  /\ (op = "symbolToString" /\ arg \in DOMAIN symbolsToAliasedNames
        /\ symbolsToAliasedNames[arg] # "")
       => result = symbolsToAliasedNames[arg]
  /\ \A k \in StepIds :
       (IsAliasedNominal(steps[k].type) /\ AliasOf(steps[k].type) # "") =>
         /\ Returned(steps[k])
         /\ steps[k].str =
              IF HasSuppressedSymbol(steps[k].type) \/ IsTypeValueConflict(steps[k].type)
              THEN "?" ELSE "!" \o AliasOf(steps[k].type)

\* With a blacklist configured, a class whose aliased symbol is not blacklisted
\* was translated to its alias as a type argument.
C5_Witness ==
  \E k \in StepIds :
    /\ IsAliasedNominal(steps[k].type) /\ AliasOf(steps[k].type) # ""
    /\ pathBlackList # None
    /\ steps[k].depth > 1
    /\ steps[k].str = "!" \o AliasOf(steps[k].type)

(***************************************************************************)
(* Type literals as translateTypeLiteral meets them.                       *)
(***************************************************************************)
\* The frame is in the Anonymous branch of translateObject: the type is an
\* object that is not blacklisted and is neither Class, Interface nor Reference.
IsAnonymousStep(k) ==
  /\ IsObject(steps[k].type)
  /\ ~HasSuppressedSymbol(steps[k].type)
  /\ Types[steps[k].type].objectFlags \cap {"Class", "Interface", "Reference"} = {}
  /\ "Anonymous" \in Types[steps[k].type].objectFlags

MembersOf(type) ==
  IF Types[type].symbol = None \/ Symbols[Types[type].symbol[1]].members = None THEN <<>>
  ELSE Symbols[Types[type].symbol[1]].members[1]

NamedFields(type) == SelectSeq(MembersOf(type), LAMBDA m : m.name \notin {"__call", "__index"})
IsCallable(type) == \E i \in 1..Len(MembersOf(type)) : MembersOf(type)[i].name = "__call"
IsIndexable(type) == \E i \in 1..Len(MembersOf(type)) : MembersOf(type)[i].name = "__index"

\* The frame runs translateTypeLiteral on a type literal not visited before
\* that has no construct signature.
IsNewLiteralStep(k) ==
  /\ IsAnonymousStep(k)
  /\ Types[steps[k].type].symbol # None
  /\ Symbols[Types[steps[k].type].symbol[1]].flags = {"TypeLiteral"}
  /\ steps[k].type \notin Range(steps[k].seenBefore)
  /\ Types[steps[k].type].constructSignatures = <<>>

\* '{f1: T1, f2: T2}' for the named fields of type and their translations.
RecordOf(type, strs) ==
  "{" \o Separated([i \in 1..Len(strs) |-> NamedFields(type)[i].name \o ": " \o strs[i]], ", ")
      \o "}"

\* The frame translated exactly the named fields, in member order, and
\* returned the record of them.
ReturnsRecord(k) ==
  /\ TypesOf(SubCalls(k)) = [i \in 1..Len(NamedFields(steps[k].type)) |->
                               NamedFields(steps[k].type)[i].type]
  /\ steps[k].str = RecordOf(steps[k].type, StrsOf(SubCalls(k)))

(***************************************************************************)
(* C6 as stated: a new type literal with no construct signature and at     *)
(* least one named field that is not both callable and indexable           *)
(* translates to the record of its fields.                                 *)
(***************************************************************************)
C6_RecordUnlessCallableAndIndexable ==
  \A k \in StepIds :
    ( /\ IsNewLiteralStep(k)
      /\ NamedFields(steps[k].type) # <<>>
      /\ ~(IsCallable(steps[k].type) /\ IsIndexable(steps[k].type))
      /\ Returned(steps[k]) )
    => ReturnsRecord(k)

(***************************************************************************)
(* C6, amended: a new type literal with no construct signature and at      *)
(* least one named field that is neither callable nor indexable translates *)
(* to the record '{f1: T1, f2: T2, ...}' of its named fields and their     *)
(* translations, in member order ({a: number, b: string|undefined} yields  *)
(* '{a: number, b: (string|undefined)}'); one that is callable or          *)
(* indexable, or both, translates to "?" with a diagnostic.                *)
(***************************************************************************)
C6_RecordOfFields ==
  \A k \in StepIds :
    (IsNewLiteralStep(k) /\ NamedFields(steps[k].type) # <<>>) =>
      /\ FailsOnlyBySubCall(k)
      /\ Returned(steps[k]) =>
           IF ~IsCallable(steps[k].type) /\ ~IsIndexable(steps[k].type)
           THEN ReturnsRecord(k)
           ELSE steps[k].str = "?" /\ steps[k].warnedAfter > steps[k].warnedBefore
      /\ (steps[k].type = "{a,b}" /\ Returned(steps[k])) =>
           steps[k].str = "{a: number, b: (string|undefined)}"

\* The record {a: number, b: string|undefined} was translated as a parameter type.
C6_Witness ==
  \E k \in StepIds :
    /\ IsNewLiteralStep(k)
    /\ steps[k].type = "{a,b}"
    /\ steps[k].depth > 1
    /\ steps[k].str = "{a: number, b: (string|undefined)}"

(***************************************************************************)
(* C7: a new type literal with no construct signature and no named fields  *)
(* translates to "!Object" when it is neither callable nor indexable, and  *)
(* to "!Object<string,V>", V the translation of its string index type,     *)
(* when it is indexable, not callable, and has a string index type: the    *)
(* string index is tried before the number index.                          *)
(***************************************************************************)
C7_EmptyAndStringMap ==
  \A k \in StepIds :
    (IsNewLiteralStep(k) /\ NamedFields(steps[k].type) = <<>>) =>
      /\ (~IsCallable(steps[k].type) /\ ~IsIndexable(steps[k].type)) =>
           /\ Returned(steps[k]) /\ steps[k].str = "!Object"
           /\ steps[k].inner = 0
      /\ ( /\ IsIndexable(steps[k].type) /\ ~IsCallable(steps[k].type)
           /\ Types[steps[k].type].stringIndexType # None ) =>
           /\ FailsOnlyBySubCall(k)
           /\ Returned(steps[k]) =>
                /\ TypesOf(SubCalls(k)) = Types[steps[k].type].stringIndexType
                /\ steps[k].str = "!Object<string," \o SubCalls(k)[1].str \o ">"

\* A type literal with both a string and a number index type became a string map.
C7_Witness ==
  \E k \in StepIds :
    /\ IsNewLiteralStep(k) /\ NamedFields(steps[k].type) = <<>>
    /\ IsIndexable(steps[k].type) /\ ~IsCallable(steps[k].type)
    /\ Types[steps[k].type].stringIndexType # None
    /\ Types[steps[k].type].numberIndexType # None
    /\ Returned(steps[k])
    /\ steps[k].str = "!Object<string,(string|undefined)>"

(***************************************************************************)
(* Function shapes.                                                        *)
(***************************************************************************)
\* An anonymous object type, not visited before, with no named fields, no
\* index signature, no construct signature and exactly one call signature.
IsFunctionShapeStep(k) ==
  /\ IsObject(steps[k].type)
  /\ Types[steps[k].type].objectFlags \cap {"Class", "Interface", "Reference"} = {}
  /\ "Anonymous" \in Types[steps[k].type].objectFlags
  /\ steps[k].type \notin Range(steps[k].seenBefore)
  /\ NamedFields(steps[k].type) = <<>>
  /\ ~IsIndexable(steps[k].type)
  /\ Types[steps[k].type].stringIndexType = None
  /\ Types[steps[k].type].numberIndexType = None
  /\ Types[steps[k].type].constructSignatures = <<>>
  /\ Len(Types[steps[k].type].callSignatures) = 1

\* The frame translated the parameter types in order and then the return
\* type, and returned 'function(P1, P2): R'.
ReturnsFunction(k) ==
  LET sig == Types[steps[k].type].callSignatures[1]
      n == Len(sig.parameters)
      strs == StrsOf(SubCalls(k))
  IN  /\ TypesOf(SubCalls(k)) = sig.parameters \o <<sig.returnType>>
      /\ steps[k].str = "function(" \o Separated(SubSeq(strs, 1, n), ", ") \o "): " \o strs[n + 1]

\* The symbol of the type is exactly a type literal, a function or a method.
HasFunctionSymbol(type) ==
  /\ Types[type].symbol # None
  /\ Symbols[Types[type].symbol[1]].flags \in {{"TypeLiteral"}, {"Function"}, {"Method"}}

(***************************************************************************)
(* C8 as stated: every such shape translates to 'function(' and the        *)
(* parameter types joined by ', ' and '): ' and the return type.           *)
(***************************************************************************)
C8_EveryFunctionShape ==
  \A k \in StepIds :
    (IsFunctionShapeStep(k) /\ Returned(steps[k])) => ReturnsFunction(k)

(***************************************************************************)
(* C8, amended: such a shape translates to 'function(' and the translated  *)
(* parameter types joined by ', ' and '): ' and the translated return      *)
(* type when its symbol is exactly a type literal, a function or a method  *)
(* and is not blacklisted; a shape with no symbol, with a symbol of other  *)
(* flags or with a blacklisted symbol translates to "?".                   *)
(***************************************************************************)
C8_FunctionShape ==
  \A k \in StepIds :
    IsFunctionShapeStep(k) =>
      /\ FailsOnlyBySubCall(k)
      /\ Returned(steps[k]) =>
           IF HasFunctionSymbol(steps[k].type) /\ ~HasSuppressedSymbol(steps[k].type)
           THEN ReturnsFunction(k)
           ELSE steps[k].str = "?" /\ steps[k].inner = 0

\* A type literal with one call signature of one parameter was translated, and
\* so was a function with one call signature.
C8_Witness ==
  /\ \E k \in StepIds :
       /\ IsFunctionShapeStep(k) /\ HasFunctionSymbol(steps[k].type)
       /\ Symbols[Types[steps[k].type].symbol[1]].flags = {"TypeLiteral"}
       /\ Len(Types[steps[k].type].callSignatures[1].parameters) = 1
       /\ steps[k].str = "function(number): string"
  /\ \E k \in StepIds :
       /\ IsFunctionShapeStep(k) /\ HasFunctionSymbol(steps[k].type)
       /\ Symbols[Types[steps[k].type].symbol[1]].flags = {"Function"}
       /\ Returned(steps[k]) /\ steps[k].str # "?"

(***************************************************************************)
(* What C9 says of a step: it fell back, for a type that is not Any.       *)
(***************************************************************************)
IsFallbackStep(k) ==
  /\ Returned(steps[k])
  /\ steps[k].str \in {"?", "!Object<?,?>"}
  /\ Types[steps[k].type].flags \cap PublicTypeFlags # {"Any"}

WarnedDuring(c) == c.warnedAfter > c.warnedBefore

\* An object type whose symbol is blacklisted by the paths of its declarations.
IsBlackListedByPath(type) ==
  /\ IsObject(type) /\ HasSuppressedSymbol(type)
  /\ Symbols[Types[type].symbol[1]].declarations # None

\* A type literal that the cycle guard had already recorded when the step began.
IsCycleGuarded(k) ==
  /\ IsAnonymousStep(k)
  /\ steps[k].type \in Range(steps[k].seenBefore)

\* A union or a Reference whose string is that of every translation it made.
PassesOnFallback(k) ==
  /\ \/ IsUnion(steps[k].type)
     \/ IsObject(steps[k].type) /\ "Reference" \in Types[steps[k].type].objectFlags
  /\ SubCalls(k) # <<>>
  /\ \A i \in 1..Len(SubCalls(k)) : SubCalls(k)[i].str = steps[k].str

(***************************************************************************)
(* C9 as stated: every step that returns "?" or "!Object<?,?>" for a type  *)
(* whose kind is not Any has called warn at least once during the step.    *)
(***************************************************************************)
C9_EveryFallbackWarns ==
  \A k \in StepIds : IsFallbackStep(k) => WarnedDuring(steps[k])

(***************************************************************************)
(* C9, amended: a step that returns "?" or "!Object<?,?>" for a type whose *)
(* kind is not Any has called warn during the step, except that            *)
(*  - an object type whose symbol has declarations, all in blacklisted     *)
(*    paths, and a type literal already recorded by the cycle guard,       *)
(*    return "?" without any warning;                                      *)
(*  - a union or a Reference that only passes on the "?" of the            *)
(*    translations it made warns exactly when one of those did.            *)
(* A Reference to a Tuple target returns "!Array<?>" without a warning.    *)
(***************************************************************************)
C9_FallbackWarnsUnlessSilent ==
  \A k \in StepIds :
    /\ IsFallbackStep(k) =>
         IF IsBlackListedByPath(steps[k].type) \/ IsCycleGuarded(k)
         THEN ~WarnedDuring(steps[k]) /\ steps[k].str = "?" /\ steps[k].inner = 0
         ELSE IF PassesOnFallback(k)
         THEN WarnedDuring(steps[k]) <=>
                \E i \in 1..Len(SubCalls(k)) : WarnedDuring(SubCalls(k)[i])
         ELSE WarnedDuring(steps[k])
    /\ (Returned(steps[k]) /\ steps[k].str = "!Array<?>" /\ steps[k].inner = 0) =>
         ~WarnedDuring(steps[k])

\* Inside another translation, an indexable type literal without a string or
\* number index type fell back to the doubly-unknown map and warned; and in the
\* same call a step returned "?" with a warning of its own.
C9_Witness ==
  /\ \E k \in StepIds :
       /\ IsFallbackStep(k) /\ steps[k].depth > 1
       /\ steps[k].str = "!Object<?,?>"
       /\ steps[k].warnedAfter = steps[k].warnedBefore + 1
  /\ \E k \in StepIds :
       /\ IsFallbackStep(k) /\ steps[k].str = "?" /\ steps[k].inner = 0
       /\ ~IsBlackListedByPath(steps[k].type) /\ ~IsCycleGuarded(k)
       /\ WarnedDuring(steps[k])

(***************************************************************************)
(* What C10 says of a symbol: it has no declaration, either because its    *)
(* declarations list is undefined or because the list is empty.            *)
(***************************************************************************)
HasNoDeclaration(symbol) ==
  \/ Symbols[symbol].declarations = None
  \/ Symbols[symbol].declarations = Some(<<>>)

(***************************************************************************)
(* C10 as stated: for every symbol that has no declaration, isBlackListed  *)
(* returns true and a diagnostic is emitted through warn.                  *)
(***************************************************************************)
C10_NoDeclarationAlwaysSuppressed ==
  (op = "isBlackListed" /\ HasNoDeclaration(arg)) =>
    result = "true" /\ warned # <<>>

(***************************************************************************)
(* C10, amended: when a path blacklist is configured, isBlackListed        *)
(* returns true for every symbol that has no declaration, with the         *)
(* diagnostic "symbol has no declarations" when the declarations list is   *)
(* undefined and with no diagnostic when it is an empty list; when no      *)
(* blacklist is configured, isBlackListed returns false for every symbol   *)
(* and emits no diagnostic.  A symbol with declarations is blacklisted,    *)
(* silently, exactly when all of them lie in blacklisted paths.            *)
(***************************************************************************)
C10_NoDeclarationSuppressedUnderBlackList ==
  op = "isBlackListed" =>
    /\ thrown = ""
    /\ IF pathBlackList = None
       THEN result = "false" /\ warned = <<>>
       ELSE IF Symbols[arg].declarations = None
       THEN result = "true" /\ warned = <<"symbol has no declarations">>
       ELSE /\ warned = <<>>
            /\ result = "true" <=>
                 \A file \in Range(Symbols[arg].declarations[1]) : file \in pathBlackList[1]
            /\ HasNoDeclaration(arg) => result = "true"

\* With a blacklist configured, isBlackListed was asked about a symbol whose
\* declarations list is undefined: it said true and warned.
C10_Witness ==
  /\ op = "isBlackListed" /\ pathBlackList # None
  /\ Symbols[arg].declarations = None
  /\ result = "true"
  /\ warned # <<>>

(***************************************************************************)
(* Reading the nesting of frames from the call trace: frame j encloses     *)
(* frame k when k is one of the calls made inside j.                       *)
(***************************************************************************)
Encloses(j, k) == k < j /\ k >= j - steps[j].inner

\* Frame k translates the type of a frame that encloses it, from the same guard
\* set: the enclosing frame's computation contains itself.
RecursAgain(k) ==
  \E j \in StepIds :
    /\ Encloses(j, k)
    /\ steps[j].type = steps[k].type
    /\ steps[j].seenBefore = steps[k].seenBefore

\* The errors translate() raises itself.
FatalErrors == {"unknown type flags", "reference loop"}

(***************************************************************************)
(* C11 as stated: every call translate(t) on a finite type graph, cyclic   *)
(* or not, terminates: it returns a string or raises a fatal error of its  *)
(* own, no frame ever repeats the computation of a frame that encloses it, *)
(* and the recursion never exhausts the stack.                             *)
(***************************************************************************)
C11_TranslateTerminates ==
  op = "translate" =>
    /\ thrown \in FatalErrors \cup {""}
    /\ \A k \in StepIds : ~RecursAgain(k) /\ steps[k].err # "stack overflow"

\* translate() of a function whose return type is the function's own type: every
\* frame is a frame of that type, started from the same guard set, down to the
\* frame the stack has no room for.
C11_Witness ==
  /\ op = "translate" /\ thrown = "stack overflow" /\ result = ""
  /\ Len(steps) = MaxDepth + 1
  /\ \A k \in StepIds :
       /\ steps[k].type = arg
       /\ steps[k].seenBefore = seenTypes
       /\ k < Len(steps) => RecursAgain(k)
  /\ Symbols[Types[arg].symbol[1]].flags = {"Function"}
  /\ Types[arg].callSignatures[1].returnType = arg

(***************************************************************************)
(* What C12 says of a type: its flags, masked to the public ones, are one  *)
(* of the kinds the switch of translate() names (each is a single flag).   *)
(***************************************************************************)
IsSingleKind(type) == Cardinality(Types[type].flags \cap PublicTypeFlags) = 1

\* The frame raised the error itself: no call it made had failed.
RaisedUnknownTypeFlags(k) ==
  /\ steps[k].err = "unknown type flags"
  /\ \A i \in 1..Len(SubCalls(k)) : Returned(SubCalls(k)[i])

(***************************************************************************)
(* C12: a translate() frame raises the fatal "unknown type flags" error    *)
(* exactly when the type's flags, masked to the public flags, are no       *)
(* single recognized kind and the Union flag is not set.  When the masked  *)
(* flags are no single kind and the Union flag is set, the frame is        *)
(* handled as a union: it translates the constituents in order, raises no  *)
(* error of its own (it fails only when a constituent's translation        *)
(* fails), and returns the union of the constituents' strings.             *)
(***************************************************************************)
C12_UnknownTypeFlags ==
  \A k \in StepIds :
    LET type == steps[k].type
        noKind == ~IsSingleKind(type)
    IN  /\ steps[k].depth <= MaxDepth =>
             (RaisedUnknownTypeFlags(k) <=> (noKind /\ ~IsUnion(type)))
        /\ (noKind /\ ~IsUnion(type) /\ steps[k].depth <= MaxDepth) =>
             steps[k].str = "" /\ steps[k].inner = 0
        /\ (noKind /\ IsUnion(type)) =>
             /\ ~RaisedUnknownTypeFlags(k)
             /\ FailsOnlyBySubCall(k)
             /\ Returned(steps[k]) =>
                  /\ TypesOf(SubCalls(k)) = Types[type].types
                  /\ LET kept == FirstOccurrences(StrsOf(SubCalls(k)))
                     IN  steps[k].str = IF Len(kept) = 1 THEN kept[1]
                                        ELSE "(" \o Separated(kept, "|") \o ")"

\* In one call, a type with the Union flag and another flag was translated as a
\* union, and then a type whose flags are all outside the public ones raised
\* the error, which ended the call.
C12_Witness ==
  /\ op = "translate" /\ thrown = "unknown type flags" /\ result = ""
  /\ \E j, k \in StepIds :
       /\ j < k
       /\ ~IsSingleKind(steps[j].type) /\ IsUnion(steps[j].type)
       /\ Returned(steps[j]) /\ steps[j].str = "boolean"
       /\ Types[steps[k].type].flags # {}
       /\ Types[steps[k].type].flags \cap PublicTypeFlags = {}
       /\ RaisedUnknownTypeFlags(k)

====
